---------------------------- MODULE Spec2Model ----------------------------
(***************************************************************************)
(* Model of the Clarity backend: the POST /rewrite handler                 *)
(* (src/api/rewrite.js) running as independent serverless invocations over *)
(* one shared Supabase `users` table and `rewrites` history table, the    *)
(* Stripe webhook handler (src/unnamed/part_000) that changes a user's     *)
(* tier, the checkout endpoint (src/api/create-checkout-session.js) and    *)
(* the service worker (src/unnamed/part_002).                              *)
(*                                                                         *)
(* Every `await` on the database or on the text-transform API is one       *)
(* action: the remote effect together with the handler code that runs      *)
(* until the next await or the response.  Calls that touch no shared state *)
(* (input validation, token verification) are folded into the first        *)
(* action of the invocation.                                               *)
(***************************************************************************)
EXTENDS Integers, FiniteSets, Sequences, TLC

VARIABLES
    users,      \* Supabase table `users`: one row per registered user
    rewrites,   \* Supabase table `rewrites`: the inserted history rows
    today,      \* the calendar date new Date() yields (days since an epoch)
    env,        \* process.env: which credentials are configured
    req,        \* one record per handler invocation in flight: its locals
    resp,       \* the invocation that answered last: its locals and response
    served,     \* per user, the 200 responses sent today to loaded users
    ledgerFailed, \* some call to the users or rewrites table has failed so far
    hook,       \* the webhook event handled last, and the response to it
    caches,     \* the browser's CacheStorage: cache name -> request path -> response
    origin,     \* the version of the site the server holds (its deployment)
    sw,         \* the service worker: lifecycle state, queued puts, last answer
    stripe,     \* Stripe: the customers and checkout sessions created
    checkout    \* one record per invocation of the checkout endpoint

swVars == <<caches, origin, sw>>

coVars == <<stripe, checkout>>

vars == <<users, rewrites, today, env, req, resp, served, ledgerFailed, hook,
          caches, origin, sw, stripe, checkout>>

-----------------------------------------------------------------------------
(* Bounds of the model *)

MaxReqs == 2        \* invocations of a behaviour in which they run in turn
MaxRace == 3        \* invocations of a behaviour in which they overlap
MaxDay == 2         \* the clock stops advancing at this date
MaxVersion == 1     \* deployments of the site after the first
MaxCheckouts == 2   \* invocations of the checkout endpoint

NULL == "null"     \* a null string
None == <<>>       \* a null number, date or object; Some(x) is a present one
Some(x) == <<x>>
Get(o) == o[1]

Users == {"u1"}
Reqs == 1..(IF MaxRace > MaxReqs THEN MaxRace ELSE MaxReqs)
Checkouts == 1..MaxCheckouts

Outcomes == {"ok", "error", "throw"}

-----------------------------------------------------------------------------
(* Static tables of the rewrite handler *)

dailyLimits == [free |-> 2, standard |-> 10, pro |-> 20]

freeStyles == {"professional", "direct", "email"}
paidStyles == {"persuasive", "casual", "formal", "empathetic"}
stylePrompts == freeStyles \cup paidStyles

\* The style strings requests are drawn from, and String.toLowerCase on them.
Styles == {"professional", "formal", "PERSUASIVE", "poetic"}

ToLowerCase(s) ==
    IF s = "PERSUASIVE" THEN "persuasive"
    ELSE IF s = "Standard" THEN "standard"
    ELSE IF s = "Pro" THEN "pro"
    ELSE s

\* The Authorization headers requests are drawn from: none or no Bearer
\* token, a token getUser knows no user for, one getUser rejects on, and a
\* user's valid token.
Auths == {"none", "invalid", "throw", "valid"}

\* The text values requests are drawn from, and String.trim on them.
Texts == {NULL, "", "   ", "buy milk"}

\* Mutant: the text is validated as it came.
NoTrim(t) == t

Trim(t) == IF t = "   " THEN "" ELSE t

\* userData.tier || 'free'
TierOrFree(t) == IF t = NULL \/ t = "" THEN "free" ELSE t

\* Mutant: a tier the table does not know gets the standard limit.
UserLimitDefaultStandard(tier) ==
    IF tier \in DOMAIN dailyLimits THEN dailyLimits[tier] ELSE dailyLimits.standard

\* dailyLimits[userTier] || 2
UserLimit(tier) ==
    IF tier \in DOMAIN dailyLimits THEN dailyLimits[tier] ELSE 2

\* x || 0
OrZero(x) == IF x = None THEN 0 ELSE Get(x)

\* Mutant: the limit check lets a count equal to the limit through.
LimitReachedStrict(count, limit) == OrZero(count) > limit

\* userData.rewrites_today >= userLimit
LimitReached(count, limit) == OrZero(count) >= limit

\* Mutant: the style check as an allow-list of the free styles.
NotFreeStyleOnFree(tier, style) ==
    tier = "free" /\ ToLowerCase(style) \notin freeStyles

\* userTier === 'free' && paidStyles.includes(style.toLowerCase())
PaidStyleOnFree(tier, style) ==
    tier = "free" /\ ToLowerCase(style) \in paidStyles

\* stylePrompts[style.toLowerCase()] || stylePrompts.professional
getPromptForStyle(style) ==
    IF ToLowerCase(style) \in stylePrompts
    THEN ToLowerCase(style) ELSE "professional"

\* Mutant: the remaining of the 200 response without this request's use.
RemainingBeforeCommit(tier, userData) ==
    IF tier = "free" /\ userData # None
    THEN UserLimit(tier) - OrZero(Get(userData).rewrites_today)
    ELSE UserLimit(tier)

\* remaining of the 200 response
RemainingAfter(tier, userData) ==
    IF tier = "free" /\ userData # None
    THEN UserLimit(tier) - (OrZero(Get(userData).rewrites_today) + 1)
    ELSE UserLimit(tier)

\* remaining of the 403 response
RemainingOnStyleReject(limit, count) == limit - OrZero(count)

-----------------------------------------------------------------------------
(* State *)

IdleReq ==
    [pc |-> "idle",          \* idle, select, rollover, claude, commit, history, done
     text |-> NULL,          \* req.body.text and req.body.style
     style |-> NULL,
     userId |-> NULL,
     userTier |-> "free",
     userData |-> None,      \* the handler's copy of the loaded row
     reqToday |-> None,      \* the date the handler computed
     status |-> 0,           \* HTTP status of the response, 0 before it
     remaining |-> None,
     prompt |-> NULL,        \* prompt passed to the text-transform API
     claude |-> "none",      \* none, ok, failed: the text-transform call
     stale |-> FALSE,        \* the loaded row had another date than today
     resetWrote |-> FALSE,   \* this invocation's rollover update was applied
     committed |-> FALSE,    \* this invocation's counter update was applied
     inserted |-> FALSE]     \* this invocation's history insert was applied

Respond(q, code, rem) ==
    [q EXCEPT !.pc = "done", !.status = code, !.remaining = rem]

\* Mutant: the paid-style check placed before the limit check.
EvaluateStyleFirst(q) ==
    LET limit == UserLimit(q.userTier) IN
    IF PaidStyleOnFree(q.userTier, q.style)
    THEN Respond(q, 403,
                 Some(RemainingOnStyleReject(limit, Get(q.userData).rewrites_today)))
    ELSE IF LimitReached(Get(q.userData).rewrites_today, limit)
    THEN Respond(q, 429, Some(0))
    ELSE [q EXCEPT !.pc = "claude"]

\* Lines 97-122 (limit check, then paid-style check), run on the handler's
\* copy of the row; falls through to the text-transform call.
Evaluate(q) ==
    LET limit == UserLimit(q.userTier) IN
    IF LimitReached(Get(q.userData).rewrites_today, limit)
    THEN Respond(q, 429, Some(0))
    ELSE IF PaidStyleOnFree(q.userTier, q.style)
    THEN Respond(q, 403,
                 Some(RemainingOnStyleReject(limit, Get(q.userData).rewrites_today)))
    ELSE [q EXCEPT !.pc = "claude"]

\* A finished invocation keeps no locals.
DoneReq == [IdleReq EXCEPT !.pc = "done"]

\* The step of invocation r that leaves it in q: a response is put on the
\* wire and counted.
Step(r, q) ==
    /\ req' = [req EXCEPT ![r] = IF q.pc = "done" THEN DoneReq ELSE q]
    /\ resp' = IF q.pc = "done" THEN q ELSE resp
    /\ served' = IF q.pc = "done" /\ q.status = 200 /\ q.userData # None
                 THEN [served EXCEPT ![q.userId] = @ + 1]
                 ELSE served

\* No invocation is between its first step and its response.
Quiescent == \A r \in Reqs : req[r].pc \in {"idle", "done"}

\* The count the quota is checked against: today's count of the loaded row,
\* 0 when the row is of another date (the rollover).
EffectiveCount(q) ==
    IF q.stale THEN 0 ELSE OrZero(Get(q.userData).rewrites_today)

\* process.env with every credential set.
Configured ==
    [ANTHROPIC_API_KEY |-> TRUE, SUPABASE_URL |-> TRUE,
     SUPABASE_SERVICE_KEY |-> TRUE]

\* The credentials createClient is given at module load are set.
DbConfigured == env.SUPABASE_URL /\ env.SUPABASE_SERVICE_KEY

-----------------------------------------------------------------------------
(* POST /rewrite *)

\* Lines 6-10: createClient, given an undefined url or key, throws while the
\* module loads: the invocation ends with no response of the handler
\* (status 0), whatever the request.
ModuleLoadFails(r, text, style) ==
    /\ req[r].pc = "idle"
    /\ IF r = 1 THEN TRUE ELSE req[r - 1].pc # "idle"
    /\ ~DbConfigured
    /\ Step(r, Respond([req[r] EXCEPT !.text = text, !.style = style], 0, None))
    /\ UNCHANGED <<users, rewrites, today, env, ledgerFailed, hook, swVars, coVars>>

\* Lines 28-60: validation, credential check, token verification.  A client
\* that was created without its credentials verifies no token.
StartRewrite(r, u, text, style, auth) ==
    /\ req[r].pc = "idle"
    /\ IF r = 1 THEN TRUE ELSE req[r - 1].pc # "idle"
    /\ LET q == [req[r] EXCEPT !.text = text, !.style = style] IN
       Step(r,
           IF text = NULL \/ Trim(text) = "" THEN Respond(q, 400, None)
           ELSE IF style = NULL \/ style = "" THEN Respond(q, 400, None)
           ELSE IF ~env.ANTHROPIC_API_KEY THEN Respond(q, 500, None)
           ELSE IF auth = "valid" /\ DbConfigured
           THEN [q EXCEPT !.pc = "select", !.userId = u]
           ELSE [q EXCEPT !.pc = "claude"])
    /\ UNCHANGED <<users, rewrites, today, env, ledgerFailed, hook, swVars, coVars>>

\* Mutant: a row that cannot be loaded is answered 401.
SelectUserOr401(r, outcome) ==
    /\ req[r].pc = "select"
    /\ LET q == req[r]
           row == users[q.userId]
           loaded == [q EXCEPT !.userData =
                                  Some([rewrites_today |-> row.rewrites_today,
                                        rewrites_total |-> row.rewrites_total,
                                        last_rewrite_date |-> row.last_rewrite_date]),
                               !.userTier = TierOrFree(row.tier),
                               !.reqToday = Some(today)]
       IN Step(r,
           IF outcome # "ok" THEN Respond(q, 401, None)
           ELSE IF row.last_rewrite_date # Some(today)
           THEN [loaded EXCEPT !.pc = "rollover", !.stale = TRUE]
           ELSE Evaluate(loaded))
    /\ ledgerFailed' = (ledgerFailed \/ outcome # "ok")
    /\ UNCHANGED <<users, rewrites, today, env, hook, swVars, coVars>>

\* Lines 62-122: the row is read; the handler computes today and either
\* issues the rollover update or evaluates the request.
SelectUser(r, outcome) ==
    /\ req[r].pc = "select"
    /\ LET q == req[r]
           row == users[q.userId]
           loaded == [q EXCEPT !.userData =
                                  Some([rewrites_today |-> row.rewrites_today,
                                        rewrites_total |-> row.rewrites_total,
                                        last_rewrite_date |-> row.last_rewrite_date]),
                               !.userTier = TierOrFree(row.tier),
                               !.reqToday = Some(today)]
       IN Step(r,
           IF outcome # "ok" THEN [q EXCEPT !.pc = "claude"]
           ELSE IF row.last_rewrite_date # Some(today)
           THEN [loaded EXCEPT !.pc = "rollover", !.stale = TRUE]
           ELSE Evaluate(loaded))
    /\ ledgerFailed' = (ledgerFailed \/ outcome # "ok")
    /\ UNCHANGED <<users, rewrites, today, env, hook, swVars, coVars>>

\* Lines 86-122: the rollover update reaches the table (or fails); the
\* handler zeroes its copy and evaluates.  A rejected await lands in the
\* catch of line 125 and the handler goes on to the text-transform call.
Rollover(r, outcome) ==
    /\ req[r].pc = "rollover"
    /\ LET q == req[r] IN
       /\ users' = IF outcome = "ok"
                   THEN [users EXCEPT ![q.userId].rewrites_today = Some(0),
                                      ![q.userId].last_rewrite_date = q.reqToday]
                   ELSE users
       /\ Step(r,
             IF outcome = "throw" THEN [q EXCEPT !.pc = "claude"]
             ELSE Evaluate([q EXCEPT !.userData[1].rewrites_today = Some(0),
                                     !.resetWrote = (outcome = "ok")]))
    /\ ledgerFailed' = (ledgerFailed \/ outcome # "ok")
    /\ UNCHANGED <<rewrites, today, env, hook, swVars, coVars>>

\* Mutant: a failed text-transform call still goes on to the counter update.
CallClaudeChargesFailure(r, outcome) ==
    /\ req[r].pc = "claude"
    /\ LET q == [req[r] EXCEPT !.prompt = getPromptForStyle(req[r].style)] IN
       Step(r,
           IF q.userId # NULL /\ q.userData # None
           THEN [q EXCEPT !.pc = "commit",
                          !.claude = IF outcome = "ok" THEN "ok" ELSE "failed"]
           ELSE IF outcome # "ok"
           THEN [Respond(q, 500, None) EXCEPT !.claude = "failed"]
           ELSE [Respond(q, 200, Some(RemainingAfter(q.userTier, q.userData)))
                    EXCEPT !.claude = "ok"])
    /\ UNCHANGED <<users, rewrites, today, env, ledgerFailed, hook, swVars, coVars>>

\* Lines 131-200: the text-transform call.  "error" is a non-OK response,
\* "throw" a rejected fetch or a malformed body (outer catch).
CallClaude(r, outcome) ==
    /\ req[r].pc = "claude"
    /\ LET q == [req[r] EXCEPT !.prompt = getPromptForStyle(req[r].style)] IN
       Step(r,
           IF outcome # "ok" THEN [Respond(q, 500, None) EXCEPT !.claude = "failed"]
           ELSE IF q.userId # NULL /\ q.userData # None
           THEN [q EXCEPT !.pc = "commit", !.claude = "ok"]
           ELSE [Respond(q, 200, Some(RemainingAfter(q.userTier, q.userData)))
                    EXCEPT !.claude = "ok"])
    /\ UNCHANGED <<users, rewrites, today, env, ledgerFailed, hook, swVars, coVars>>

\* Mutant: the counter update leaves rewrites_total out.
CommitWriteTodayOnly(row, userData) ==
    [row EXCEPT !.rewrites_today = Some(OrZero(userData.rewrites_today) + 1)]

\* Mutant: the counter update also writes the handler's default tier.
CommitWriteWithTier(row, userData) ==
    [row EXCEPT !.rewrites_today = Some(OrZero(userData.rewrites_today) + 1),
                !.rewrites_total = Some(OrZero(userData.rewrites_total) + 1),
                !.tier = "free"]

\* Lines 161-169: the counter update, computed from the handler's copy.
CommitWrite(row, userData) ==
    [row EXCEPT !.rewrites_today = Some(OrZero(userData.rewrites_today) + 1),
                !.rewrites_total = Some(OrZero(userData.rewrites_total) + 1)]

\* Mutant: a counter update that fails fails the request.
CommitFailureFatal(r, outcome) ==
    /\ req[r].pc = "commit"
    /\ LET q == req[r] IN
       /\ users' = IF outcome = "ok"
                   THEN [users EXCEPT ![q.userId] = CommitWrite(@, Get(q.userData))]
                   ELSE users
       /\ Step(r,
             IF outcome # "ok"
             THEN Respond(q, 500, None)
             ELSE [q EXCEPT !.pc = "history", !.committed = TRUE])
    /\ ledgerFailed' = (ledgerFailed \/ outcome # "ok")
    /\ UNCHANGED <<rewrites, today, env, hook, swVars, coVars>>

\* Mutant: the history insert is tried also after a counter update that threw.
CommitThrowStillInserts(r, outcome) ==
    /\ req[r].pc = "commit"
    /\ LET q == req[r] IN
       /\ users' = IF outcome = "ok"
                   THEN [users EXCEPT ![q.userId] = CommitWrite(@, Get(q.userData))]
                   ELSE users
       /\ Step(r, [q EXCEPT !.pc = "history", !.committed = (outcome = "ok")])
    /\ ledgerFailed' = (ledgerFailed \/ outcome # "ok")
    /\ UNCHANGED <<rewrites, today, env, hook, swVars, coVars>>

\* Lines 160-200: the counter update reaches the table (or fails).  A
\* rejected await skips the history insert (catch of line 180).
Commit(r, outcome) ==
    /\ req[r].pc = "commit"
    /\ LET q == req[r] IN
       /\ users' = IF outcome = "ok"
                   THEN [users EXCEPT ![q.userId] = CommitWrite(@, Get(q.userData))]
                   ELSE users
       /\ Step(r,
             IF outcome = "throw"
             THEN Respond(q, 200, Some(RemainingAfter(q.userTier, q.userData)))
             ELSE [q EXCEPT !.pc = "history", !.committed = (outcome = "ok")])
    /\ ledgerFailed' = (ledgerFailed \/ outcome # "ok")
    /\ UNCHANGED <<rewrites, today, env, hook, swVars, coVars>>

\* Lines 171-200: the history insert, then the 200 response.
History(r, outcome) ==
    /\ req[r].pc = "history"
    /\ LET q == req[r] IN
       /\ rewrites' = IF outcome = "ok"
                      THEN Append(rewrites, [user_id |-> q.userId])
                      ELSE rewrites
       /\ Step(r,
             [Respond(q, 200, Some(RemainingAfter(q.userTier, q.userData)))
                 EXCEPT !.inserted = (outcome = "ok")])
    /\ ledgerFailed' = (ledgerFailed \/ outcome # "ok")
    /\ UNCHANGED <<users, today, env, hook, swVars, coVars>>

\* The calendar date advances.
Tick ==
    /\ today < MaxDay
    /\ today' = today + 1
    /\ served' = [u \in Users |-> 0]
    /\ UNCHANGED <<users, rewrites, env, req, resp, ledgerFailed, hook, swVars, coVars>>

-----------------------------------------------------------------------------
(* POST /api/stripe-webhook *)

\* The rows of the users table when two accounts exist.
Accounts == {"u1", "u2"}

\* Stripe subscription ids.
Subs == {"sub_1", "sub_2"}

\* event.type: the five handled types and one the switch has no case for.
EventTypes ==
    {"checkout.session.completed", "customer.subscription.updated",
     "customer.subscription.deleted", "invoice.payment_succeeded",
     "invoice.payment_failed", "customer.created"}

\* metadata.tier and metadata.supabase_user_id of an event.
MetaTiers == {"standard", "pro"}
MetaUsers == Accounts \cup {NULL}

\* Mutant: the upgrade is written without the .eq('id', userId) filter and
\* starts the day's count anew.
CheckoutCompletedEveryRow(tbl, userId, tier, sub) ==
    [u \in DOMAIN tbl |->
        [tbl[u] EXCEPT !.tier = tier, !.stripe_subscription_id = sub,
                       !.rewrites_today = Some(0)]]

\* Lines 72-79: update({tier, stripe_subscription_id}).eq('id', userId)
CheckoutCompleted(tbl, userId, tier, sub) ==
    [u \in DOMAIN tbl |->
        IF u = userId
        THEN [tbl[u] EXCEPT !.tier = tier, !.stripe_subscription_id = sub]
        ELSE tbl[u]]

\* Lines 98-104: update({tier}).eq('id', userId)
SubscriptionUpdated(tbl, userId, tier) ==
    [u \in DOMAIN tbl |->
        IF u = userId THEN [tbl[u] EXCEPT !.tier = tier] ELSE tbl[u]]

\* Mutant: the downgrade reaches every row that has a subscription.
DowngradeEverySubscriber(tbl, sub) ==
    [u \in DOMAIN tbl |->
        IF tbl[u].stripe_subscription_id # NULL
        THEN [tbl[u] EXCEPT !.tier = "free", !.stripe_subscription_id = NULL]
        ELSE tbl[u]]

\* Lines 120-127: update({tier: 'free', stripe_subscription_id: null})
\*                  .eq('stripe_subscription_id', subscription.id)
SubscriptionDeleted(tbl, sub) ==
    [u \in DOMAIN tbl |->
        IF tbl[u].stripe_subscription_id = sub
        THEN [tbl[u] EXCEPT !.tier = "free", !.stripe_subscription_id = NULL]
        ELSE tbl[u]]

\* Mutant: a failed invoice payment takes the paid tier away.
WebhookUpdateOnFailedPayment(tbl, type, sub, userId, tier) ==
    IF type = "checkout.session.completed"
    THEN CheckoutCompleted(tbl, userId, tier, sub)
    ELSE IF type = "customer.subscription.updated"
    THEN SubscriptionUpdated(tbl, userId, tier)
    ELSE IF type \in {"customer.subscription.deleted", "invoice.payment_failed"}
    THEN SubscriptionDeleted(tbl, sub)
    ELSE tbl

\* The update the switch of lines 59-163 issues for an event, as a new table.
WebhookUpdate(tbl, type, sub, userId, tier) ==
    IF type = "checkout.session.completed"
    THEN CheckoutCompleted(tbl, userId, tier, sub)
    ELSE IF type = "customer.subscription.updated"
    THEN SubscriptionUpdated(tbl, userId, tier)
    ELSE IF type = "customer.subscription.deleted"
    THEN SubscriptionDeleted(tbl, sub)
    ELSE tbl

IdleHook ==
    [verified |-> FALSE, type |-> NULL, sub |-> NULL, userId |-> NULL,
     status |-> 0, applied |-> FALSE]

\* Lines 31-172: one webhook delivery.  The signature is verified; the
\* update of the event's case reaches the table, returns an error (logged)
\* or throws (catch of line 168).
StripeWebhook(verified, type, sub, userId, tier, outcome) ==
    LET writes == type \in {"checkout.session.completed",
                            "customer.subscription.updated",
                            "customer.subscription.deleted"}
        applied == verified /\ writes /\ outcome = "ok"
    IN
    /\ users' = IF verified /\ outcome = "ok"
                THEN WebhookUpdate(users, type, sub, userId, tier)
                ELSE users
    /\ hook' = [verified |-> verified, type |-> type, sub |-> sub, userId |-> userId,
                status |-> IF ~verified THEN 400
                           ELSE IF writes /\ outcome = "throw" THEN 500
                           ELSE 200,
                applied |-> applied]
    /\ UNCHANGED <<rewrites, today, env, req, resp, served, ledgerFailed, swVars, coVars>>

-----------------------------------------------------------------------------
(* POST /api/create-checkout-session (src/api/create-checkout-session.js) *)

\* process.env.STRIPE_PRICE_STANDARD and process.env.STRIPE_PRICE_PRO
STRIPE_PRICE_STANDARD == "price_standard"
STRIPE_PRICE_PRO == "price_pro"

\* The priceId values requests are drawn from: none, the two prices, and
\* another price of the Stripe account.
PriceIds == {NULL, STRIPE_PRICE_STANDARD, STRIPE_PRICE_PRO, "price_other"}

\* Mutant: any price id that is present is accepted.
PriceIdPresent(priceId) == priceId # NULL

\* Lines 42-54: priceId is present and one of validPriceIds.
ValidPriceId(priceId) ==
    priceId # NULL /\ priceId \in {STRIPE_PRICE_STANDARD, STRIPE_PRICE_PRO}

\* Line 88
tierName(priceId) == IF priceId = STRIPE_PRICE_STANDARD THEN "Standard" ELSE "Pro"

\* Stripe before any call: customers is the list of the customers created,
\* each by the supabase_user_id of its metadata (the customer's id is its
\* position); sessions is the set of checkout sessions created.
NoStripe == [customers |-> <<>>, sessions |-> {}]

IdleCheckout ==
    [pc |-> "idle", auth |-> NULL, userId |-> NULL, priceId |-> NULL,
     customerId |-> None, status |-> 0]

\* Lines 93-113: the session stripe.checkout.sessions.create is asked for.
Session(q) ==
    [customer |-> Get(q.customerId), price |-> q.priceId,
     supabase_user_id |-> q.userId, tier |-> ToLowerCase(tierName(q.priceId))]

Answer500(q) == [q EXCEPT !.pc = "done", !.status = 500]

\* Lines 22-54: the Authorization header, getUser, the priceId checks.
StartCheckout(c, u, auth, priceId) ==
    /\ checkout[c].pc = "idle"
    /\ IF c = 1 THEN TRUE ELSE checkout[c - 1].pc # "idle"
    /\ LET q == [checkout[c] EXCEPT !.auth = auth, !.priceId = priceId] IN
       checkout' = [checkout EXCEPT ![c] =
           IF auth \in {"none", "invalid"}
           THEN [q EXCEPT !.pc = "done", !.status = 401]
           ELSE IF auth = "throw" THEN Answer500(q)
           ELSE IF ~ValidPriceId(priceId)
           THEN [q EXCEPT !.pc = "done", !.status = 400, !.userId = u]
           ELSE [q EXCEPT !.pc = "select", !.userId = u]]
    /\ UNCHANGED <<stripe, users, rewrites, today, env, req, resp, served,
                   ledgerFailed, hook, swVars>>

\* Lines 56-69: the row is read for stripe_customer_id.
CheckoutSelect(c, outcome) ==
    /\ checkout[c].pc = "select"
    /\ LET q == checkout[c]
           customerId == users[q.userId].stripe_customer_id
       IN checkout' = [checkout EXCEPT ![c] =
           IF outcome # "ok" THEN Answer500(q)
           ELSE [q EXCEPT !.customerId = customerId,
                          !.pc = IF customerId = None THEN "create" ELSE "session"]]
    /\ UNCHANGED <<stripe, users, rewrites, today, env, req, resp, served,
                   ledgerFailed, hook, swVars>>

\* Lines 72-78: stripe.customers.create
CreateCustomer(c, ok) ==
    /\ checkout[c].pc = "create"
    /\ LET q == checkout[c] IN
       /\ stripe' = IF ok
                    THEN [stripe EXCEPT !.customers = Append(@, q.userId)]
                    ELSE stripe
       /\ checkout' = [checkout EXCEPT ![c] =
             IF ok
             THEN [q EXCEPT !.pc = "save",
                            !.customerId = Some(Len(stripe.customers) + 1)]
             ELSE Answer500(q)]
    /\ UNCHANGED <<users, rewrites, today, env, req, resp, served,
                   ledgerFailed, hook, swVars>>

\* Lines 80-84: update({stripe_customer_id}).eq('id', user.id); the result
\* is not looked at.
SaveCustomer(c, outcome) ==
    /\ checkout[c].pc = "save"
    /\ LET q == checkout[c] IN
       /\ users' = IF outcome = "ok"
                   THEN [users EXCEPT ![q.userId].stripe_customer_id = q.customerId]
                   ELSE users
       /\ checkout' = [checkout EXCEPT ![c] =
             IF outcome = "throw" THEN Answer500(q) ELSE [q EXCEPT !.pc = "session"]]
    /\ UNCHANGED <<stripe, rewrites, today, env, req, resp, served,
                   ledgerFailed, hook, swVars>>

\* Lines 90-119: stripe.checkout.sessions.create, then the 200 response.
CreateSession(c, ok) ==
    /\ checkout[c].pc = "session"
    /\ LET q == checkout[c] IN
       /\ stripe' = IF ok
                    THEN [stripe EXCEPT !.sessions = @ \cup {Session(q)}]
                    ELSE stripe
       /\ checkout' = [checkout EXCEPT ![c] =
             IF ok THEN [q EXCEPT !.pc = "done", !.status = 200] ELSE Answer500(q)]
    /\ UNCHANGED <<users, rewrites, today, env, req, resp, served,
                   ledgerFailed, hook, swVars>>

-----------------------------------------------------------------------------
(* Service worker (src/unnamed/part_002; src/service-worker.js is the same
   worker without the scheme and origin filter) *)

CACHE_NAME == "claritytext-v7-1"
OldCache == "claritytext-v6"
CacheNames == {CACHE_NAME, OldCache}

urlsToCache == {"/manifest.json", "/icon-192.png", "/icon-512.png"}

\* The request paths of the model.
Paths == {"/", "/app.html", "/manifest.json", "/icon-192.png", "/style.css"}

\* event.request.mode
Modes == {"navigate", "no-cors"}

\* What the network gives for a fetch: a 200 response with the server's
\* current version, a 404 response, or a rejection.
NetOutcomes == {"200", "404", "reject"}

\* A response: the version of the site it was made from and its status.
Response(v, status) == [v |-> v, status |-> status]

NetResponse(path, net) ==
    IF net = "reject" THEN None
    ELSE Some(Response(origin, IF net = "200" THEN 200 ELSE 404))

NoCaches == [n \in {} |-> <<>>]
EmptyCache == [p \in Paths |-> None]
FirstVersion == 0

\* caches.match(request): the entry of the first cache that has one.
Match(path) ==
    IF CACHE_NAME \in DOMAIN caches /\ caches[CACHE_NAME][path] # None
    THEN caches[CACHE_NAME][path]
    ELSE IF OldCache \in DOMAIN caches THEN caches[OldCache][path]
    ELSE None

\* caches.open(name) creates the cache when there is none.
Opened(cs, name) ==
    IF name \in DOMAIN cs THEN cs
    ELSE [n \in DOMAIN cs \cup {name} |-> IF n = name THEN EmptyCache ELSE cs[n]]

\* url.pathname.endsWith('.html')
EndsWithHtml(path) == path = "/app.html"

\* url.pathname.includes('manifest')
IncludesManifest(path) == path = "/manifest.json"

\* Lines 64-69: the network-first test.
IsHtmlRequest(path, mode) ==
    mode = "navigate" \/ EndsWithHtml(path) \/ path = "/"
        \/ path = "/app.html" \/ path = "/index.html"

\* The answer of a branch: where the response came from, whether the
\* network was asked and the cache consulted, and the put it queues.
Answer(source, body, fetched, matched, put) ==
    [source |-> source, body |-> body, fetched |-> fetched,
     matched |-> matched, put |-> put]

\* Mutant: a hit is answered from the cache and refreshed from the network.
StaleWhileRevalidate(cached, netResp) ==
    IF cached # None
    THEN Answer("cache", cached, TRUE, TRUE,
                IF netResp # None /\ Get(netResp).status = 200 THEN netResp ELSE None)
    ELSE IF netResp = None THEN Answer("error", None, TRUE, TRUE, None)
    ELSE Answer("network", netResp, TRUE, TRUE,
                IF Get(netResp).status = 200 THEN netResp ELSE None)

\* Lines 95-115: caches.match(request), then on a miss fetch(request) and,
\* for a 200 response, a put that is not awaited.
CacheFirst(cached, netResp) ==
    IF cached # None THEN Answer("cache", cached, FALSE, TRUE, None)
    ELSE IF netResp = None THEN Answer("error", None, TRUE, TRUE, None)
    ELSE Answer("network", netResp, TRUE, TRUE,
                IF Get(netResp).status = 200 THEN netResp ELSE None)

\* Mutant: the cache is asked before the network.
CacheBeforeNetwork(cached, netResp) ==
    IF cached # None THEN Answer("cache", cached, FALSE, TRUE, None)
    ELSE IF netResp # None THEN Answer("network", netResp, TRUE, TRUE, None)
    ELSE Answer("error", None, TRUE, TRUE, None)

\* Lines 72-82 and 88-90: fetch(request).catch(() => caches.match(request))
NetworkFirst(cached, netResp) ==
    IF netResp # None THEN Answer("network", netResp, TRUE, FALSE, None)
    ELSE Answer(IF cached # None THEN "cache" ELSE "error", cached, TRUE, TRUE, None)

ParsedWorker ==
    [state |-> "parsed",      \* parsed, installed, activated
     puts |-> {},             \* cache.put calls issued and not yet done
     last |-> None]           \* the fetch event handled last and its answer

\* Lines 10-23: the install event.  addAll stores all of urlsToCache or,
\* when a fetch of one fails, none and the installation fails.
Install(ok) ==
    /\ sw.state = "parsed"
    /\ caches' = IF ok
                 THEN [n \in DOMAIN caches \cup {CACHE_NAME} |->
                         IF n = CACHE_NAME
                         THEN [p \in Paths |->
                                 IF p \in urlsToCache
                                 THEN Some(Response(origin, 200))
                                 ELSE Opened(caches, CACHE_NAME)[CACHE_NAME][p]]
                         ELSE caches[n]]
                 ELSE Opened(caches, CACHE_NAME)
    /\ sw' = [sw EXCEPT !.state = IF ok THEN "installed" ELSE "parsed"]
    /\ UNCHANGED <<origin, users, rewrites, today, env, req, resp, served,
                   ledgerFailed, hook, coVars>>

\* Mutant: the activate event only claims the clients.
ActivateClaimOnly ==
    /\ sw.state = "installed"
    /\ sw' = [sw EXCEPT !.state = "activated"]
    /\ UNCHANGED <<caches, origin, users, rewrites, today, env, req, resp, served,
                   ledgerFailed, hook, coVars>>

\* Lines 26-48: the activate event deletes every cache but CACHE_NAME.
Activate ==
    /\ sw.state = "installed"
    /\ caches' = [n \in DOMAIN caches \cap {CACHE_NAME} |-> caches[n]]
    /\ sw' = [sw EXCEPT !.state = "activated"]
    /\ UNCHANGED <<origin, users, rewrites, today, env, req, resp, served,
                   ledgerFailed, hook, coVars>>

\* Lines 51-116: one fetch event, up to its response.  A request of another
\* scheme or origin is left to the browser, which asks the network.
FetchEvent(path, mode, http, sameOrigin, net) ==
    /\ sw.state = "activated"
    /\ LET netResp == NetResponse(path, net)
           handled == http /\ sameOrigin
           branch == IF ~handled THEN "none"
                     ELSE IF IsHtmlRequest(path, mode) THEN "html"
                     ELSE IF IncludesManifest(path) THEN "manifest"
                     ELSE "asset"
           a == IF ~handled
                THEN Answer(IF netResp # None THEN "network" ELSE "error",
                            netResp, TRUE, FALSE, None)
                ELSE IF branch = "asset" THEN CacheFirst(Match(path), netResp)
                ELSE NetworkFirst(Match(path), netResp)
       IN sw' = [sw EXCEPT !.puts = IF a.put = None THEN @
                                     ELSE @ \cup {<<path, Get(a.put)>>},
                           !.last = Some([path |-> path, mode |-> mode, net |-> net,
                                          branch |-> branch, answer |-> a])]
    /\ UNCHANGED <<caches, origin, users, rewrites, today, env, req, resp,
                   served, ledgerFailed, hook, coVars>>

\* Lines 107-110: caches.open(CACHE_NAME).then(cache => cache.put(...)),
\* some time after the response.
CachePut(path, response) ==
    /\ <<path, response>> \in sw.puts
    /\ caches' = [Opened(caches, CACHE_NAME) EXCEPT ![CACHE_NAME][path] = Some(response)]
    /\ sw' = [sw EXCEPT !.puts = @ \ {<<path, response>>}]
    /\ UNCHANGED <<origin, users, rewrites, today, env, req, resp, served,
                   ledgerFailed, hook, coVars>>

\* A new version of the site is deployed.
Deploy ==
    /\ origin < MaxVersion
    /\ origin' = origin + 1
    /\ UNCHANGED <<caches, sw, users, rewrites, today, env, req, resp, served,
                   ledgerFailed, hook, coVars>>

-----------------------------------------------------------------------------
(* Initial states *)

InitRow(tier, count, date) ==
    [tier |-> tier, rewrites_today |-> Some(count), rewrites_total |-> Some(count),
     last_rewrite_date |-> date, stripe_subscription_id |-> NULL,
     stripe_customer_id |-> None]

InitTiers == {"free", "standard"}

\* Counts a row of today starts with: none used, one left, none left.
InitCounts(t) == {0, dailyLimits[t] - 1, dailyLimits[t]}

Init ==
    /\ users \in [Users -> UNION {{InitRow(t, 0, None)} \cup
                                {InitRow(t, c, Some(1)) : c \in InitCounts(t)} :
                                t \in InitTiers}]
    /\ rewrites = <<>>
    /\ today = 1
    /\ env \in [ANTHROPIC_API_KEY : BOOLEAN,
                 SUPABASE_URL : {TRUE}, SUPABASE_SERVICE_KEY : {TRUE}]
    /\ req = [r \in Reqs |-> IdleReq]
    /\ resp = IdleReq
    /\ served = [u \in Users |-> 0]
    /\ ledgerFailed = FALSE
    /\ hook = IdleHook
    /\ caches = NoCaches /\ origin = FirstVersion /\ sw = ParsedWorker
    /\ stripe = NoStripe /\ checkout = [c \in Checkouts |-> IdleCheckout]

\* Invocations run one after another; every input, every failure.
Next ==
    \/ /\ Quiescent
       /\ \E r \in 1..MaxReqs, u \in Users, text \in Texts,
             style \in Styles \cup {NULL}, auth \in Auths :
             StartRewrite(r, u, text, style, auth)
    \/ \E r \in Reqs, o \in Outcomes : SelectUser(r, o)
    \/ \E r \in Reqs, o \in Outcomes : Rollover(r, o)
    \/ \E r \in Reqs, o \in Outcomes : CallClaude(r, o)
    \/ \E r \in Reqs, o \in Outcomes : Commit(r, o)
    \/ \E r \in Reqs, o \in Outcomes : History(r, o)
    \/ Tick

Spec == Init /\ [][Next]_vars

\* Overlapping invocations of signed-in users on one day, with a ledger
\* that applies every write and no tier change.
InitRace ==
    /\ users \in [Users -> {InitRow("free", 0, None), InitRow("free", 0, Some(1))}]
    /\ rewrites = <<>>
    /\ today = 1
    /\ env = Configured
    /\ req = [r \in Reqs |-> IdleReq]
    /\ resp = IdleReq
    /\ served = [u \in Users |-> 0]
    /\ ledgerFailed = FALSE
    /\ hook = IdleHook
    /\ caches = NoCaches /\ origin = FirstVersion /\ sw = ParsedWorker
    /\ stripe = NoStripe /\ checkout = [c \in Checkouts |-> IdleCheckout]

NextRace ==
    \/ \E r \in 1..MaxRace, u \in Users :
          StartRewrite(r, u, "buy milk", "professional", "valid")
    \/ \E r \in Reqs : SelectUser(r, "ok")
    \/ \E r \in Reqs : Rollover(r, "ok")
    \/ \E r \in Reqs, o \in {"ok", "error"} : CallClaude(r, o)
    \/ \E r \in Reqs : Commit(r, "ok")
    \/ \E r \in Reqs : History(r, "ok")

SpecRace == InitRace /\ [][NextRace]_vars

\* One day of a free-tier user who has used nothing yet: requests in turn,
\* each with a valid token, an allowed style and a generation that
\* succeeds; the ledger calls may fail.
InitDay ==
    /\ users \in [Users -> {InitRow("free", 0, None), InitRow("free", 0, Some(1))}]
    /\ rewrites = <<>>
    /\ today = 1
    /\ env = Configured
    /\ req = [r \in Reqs |-> IdleReq]
    /\ resp = IdleReq
    /\ served = [u \in Users |-> 0]
    /\ ledgerFailed = FALSE
    /\ hook = IdleHook
    /\ caches = NoCaches /\ origin = FirstVersion /\ sw = ParsedWorker
    /\ stripe = NoStripe /\ checkout = [c \in Checkouts |-> IdleCheckout]

NextDay ==
    \/ /\ Quiescent
       /\ \E r \in Reqs, u \in Users :
             StartRewrite(r, u, "buy milk", "professional", "valid")
    \/ \E r \in Reqs, o \in Outcomes : SelectUser(r, o)
    \/ \E r \in Reqs, o \in Outcomes : Rollover(r, o)
    \/ \E r \in Reqs : CallClaude(r, "ok")
    \/ \E r \in Reqs, o \in Outcomes : Commit(r, o)
    \/ \E r \in Reqs, o \in Outcomes : History(r, o)

SpecDay == InitDay /\ [][NextDay]_vars

\* A signed-in user's requests in turn, with verified billing events for
\* that user delivered at any moment, also in the middle of a request.  The
\* row starts on the free tier, with no tier, or with a tier dailyLimits
\* has no entry for.
InitTier ==
    /\ users \in [Users -> {InitRow("free", 0, None), InitRow("free", 2, Some(1)),
                            InitRow(NULL, 1, Some(1)),
                            InitRow("enterprise", 1, Some(1)),
                            InitRow("enterprise", 2, None)}]
    /\ rewrites = <<>>
    /\ today = 1
    /\ env = Configured
    /\ req = [r \in Reqs |-> IdleReq]
    /\ resp = IdleReq
    /\ served = [u \in Users |-> 0]
    /\ ledgerFailed = FALSE
    /\ hook = IdleHook
    /\ caches = NoCaches /\ origin = FirstVersion /\ sw = ParsedWorker
    /\ stripe = NoStripe /\ checkout = [c \in Checkouts |-> IdleCheckout]

NextTier ==
    \/ /\ Quiescent
       /\ \E r \in 1..MaxReqs, u \in Users, style \in {"professional", "formal"} :
             StartRewrite(r, u, "buy milk", style, "valid")
    \/ \E r \in Reqs, o \in Outcomes : SelectUser(r, o)
    \/ \E r \in Reqs, o \in Outcomes : Rollover(r, o)
    \/ \E r \in Reqs, o \in {"ok", "error"} : CallClaude(r, o)
    \/ \E r \in Reqs, o \in Outcomes : Commit(r, o)
    \/ \E r \in Reqs, o \in Outcomes : History(r, o)
    \/ \E type \in {"checkout.session.completed", "customer.subscription.updated",
                     "customer.subscription.deleted"},
          u \in Users, tier \in MetaTiers :
          StripeWebhook(TRUE, type, "sub_1", u, tier, "ok")

SpecTier == InitTier /\ [][NextTier]_vars

\* Requests in turn under every configuration of process.env.  When a
\* database credential is missing, the module load either throws or leaves
\* a client that cannot reach the database.
InitConfig ==
    /\ users \in [Users -> {InitRow("free", 0, None), InitRow("free", 1, Some(1))}]
    /\ rewrites = <<>>
    /\ today = 1
    /\ env \in [ANTHROPIC_API_KEY : BOOLEAN, SUPABASE_URL : BOOLEAN,
                 SUPABASE_SERVICE_KEY : BOOLEAN]
    /\ req = [r \in Reqs |-> IdleReq]
    /\ resp = IdleReq
    /\ served = [u \in Users |-> 0]
    /\ ledgerFailed = FALSE
    /\ hook = IdleHook
    /\ caches = NoCaches /\ origin = FirstVersion /\ sw = ParsedWorker
    /\ stripe = NoStripe /\ checkout = [c \in Checkouts |-> IdleCheckout]

NextConfig ==
    \/ /\ Quiescent
       /\ \E r \in 1..MaxReqs, u \in Users, text \in Texts,
             style \in Styles \cup {NULL}, auth \in Auths :
             StartRewrite(r, u, text, style, auth)
    \/ /\ Quiescent
       /\ \E r \in 1..MaxReqs, text \in Texts, style \in Styles \cup {NULL} :
             ModuleLoadFails(r, text, style)
    \/ \E r \in Reqs, o \in Outcomes : SelectUser(r, o)
    \/ \E r \in Reqs, o \in Outcomes : Rollover(r, o)
    \/ \E r \in Reqs, o \in Outcomes : CallClaude(r, o)
    \/ \E r \in Reqs, o \in Outcomes : Commit(r, o)
    \/ \E r \in Reqs, o \in Outcomes : History(r, o)

SpecConfig == InitConfig /\ [][NextConfig]_vars

\* Overlapping requests of one user whose ledger calls succeed or return an
\* error (none rejects), on the date of the row or a later one.
InitQuota ==
    /\ users \in [Users -> UNION {{InitRow(t, n, d) : n \in InitCounts(t),
                                                       d \in {None, Some(1)}} :
                                    t \in InitTiers}]
    /\ rewrites = <<>>
    /\ today = 1
    /\ env = Configured
    /\ req = [r \in Reqs |-> IdleReq]
    /\ resp = IdleReq
    /\ served = [u \in Users |-> 0]
    /\ ledgerFailed = FALSE
    /\ hook = IdleHook
    /\ caches = NoCaches /\ origin = FirstVersion /\ sw = ParsedWorker
    /\ stripe = NoStripe /\ checkout = [c \in Checkouts |-> IdleCheckout]

NextQuota ==
    \/ \E r \in 1..MaxReqs, u \in Users :
          StartRewrite(r, u, "buy milk", "professional", "valid")
    \/ \E r \in Reqs, o \in {"ok", "error"} : SelectUser(r, o)
    \/ \E r \in Reqs, o \in {"ok", "error"} : Rollover(r, o)
    \/ \E r \in Reqs, o \in {"ok", "error"} : CallClaude(r, o)
    \/ \E r \in Reqs, o \in {"ok", "error"} : Commit(r, o)
    \/ \E r \in Reqs, o \in {"ok", "error"} : History(r, o)

SpecQuota == InitQuota /\ [][NextQuota]_vars

\* Invocations of the checkout endpoint for the two accounts, overlapping,
\* with every header and price id and every outcome of the remote calls.
InitCheckout ==
    /\ users = [u \in Accounts |-> InitRow("free", 1, Some(1))]
    /\ rewrites = <<>>
    /\ today = 1
    /\ env = Configured
    /\ req = [r \in Reqs |-> IdleReq]
    /\ resp = IdleReq
    /\ served = [u \in Users |-> 0]
    /\ ledgerFailed = FALSE
    /\ hook = IdleHook
    /\ caches = NoCaches /\ origin = FirstVersion /\ sw = ParsedWorker
    /\ stripe = NoStripe /\ checkout = [c \in Checkouts |-> IdleCheckout]

NextCheckout ==
    \/ \E c \in Checkouts, u \in Accounts, auth \in Auths, priceId \in PriceIds :
          StartCheckout(c, u, auth, priceId)
    \/ \E c \in Checkouts, o \in Outcomes : CheckoutSelect(c, o)
    \/ \E c \in Checkouts, ok \in BOOLEAN : CreateCustomer(c, ok)
    \/ \E c \in Checkouts, o \in Outcomes : SaveCustomer(c, o)
    \/ \E c \in Checkouts, ok \in BOOLEAN : CreateSession(c, ok)

SpecCheckout == InitCheckout /\ [][NextCheckout]_vars

\* The service worker of a browser that still holds the cache of the
\* previous worker: install, activate, then fetch events of every kind
\* while the server's resources change.
InitWorker ==
    /\ users = [u \in Users |-> InitRow("free", 0, None)]
    /\ rewrites = <<>>
    /\ today = 1
    /\ env = Configured
    /\ req = [r \in Reqs |-> IdleReq]
    /\ resp = IdleReq
    /\ served = [u \in Users |-> 0]
    /\ ledgerFailed = FALSE
    /\ hook = IdleHook
    /\ caches = [n \in {OldCache} |->
                    [p \in Paths |-> IF p \in {"/", "/icon-192.png"}
                                      THEN Some(Response(0, 200)) ELSE None]]
    /\ origin = FirstVersion
    /\ sw = ParsedWorker
    /\ stripe = NoStripe /\ checkout = [c \in Checkouts |-> IdleCheckout]

NextWorker ==
    \/ \E ok \in BOOLEAN : Install(ok)
    \/ Activate
    \/ \E path \in Paths, mode \in Modes, http \in BOOLEAN, sameOrigin \in BOOLEAN,
          net \in NetOutcomes : FetchEvent(path, mode, http, sameOrigin, net)
    \/ \E put \in sw.puts : CachePut(put[1], put[2])
    \/ Deploy

SpecWorker == InitWorker /\ [][NextWorker]_vars

\* Webhook deliveries alone, over two accounts that start on the free tier
\* with no subscription: every event, verified or not, in any order.
InitBilling ==
    /\ users = [u \in Accounts |-> InitRow("free", 1, Some(1))]
    /\ rewrites = <<>>
    /\ today = 1
    /\ env = Configured
    /\ req = [r \in Reqs |-> IdleReq]
    /\ resp = IdleReq
    /\ served = [u \in Users |-> 0]
    /\ ledgerFailed = FALSE
    /\ hook = IdleHook
    /\ caches = NoCaches /\ origin = FirstVersion /\ sw = ParsedWorker
    /\ stripe = NoStripe /\ checkout = [c \in Checkouts |-> IdleCheckout]

NextBilling ==
    \E verified \in BOOLEAN, type \in EventTypes, sub \in Subs,
       userId \in MetaUsers, tier \in MetaTiers, outcome \in Outcomes :
          StripeWebhook(verified, type, sub, userId, tier, outcome)

SpecBilling == InitBilling /\ [][NextBilling]_vars

-----------------------------------------------------------------------------
(* Properties *)

\* The last response is one to a signed-in user whose row was loaded.
Loaded(q) == q.pc = "done" /\ q.userData # None

\* A response is sent in this step.
Answered == \E r \in Reqs : req[r].pc # "done" /\ req'[r].pc = "done"

Today(u) == Get(users[u].rewrites_today)
Total(u) == Get(users[u].rewrites_total)

\* C1: with a fixed tier, the 200 responses a user gets on one day never
\* exceed the tier's daily quota, whatever the interleaving.
C1_QuotaNeverExceeded ==
    \A u \in Users : served[u] <= UserLimit(TierOrFree(users[u].tier))

\* C2: a failed text-transform call is answered 500, and the step that
\* answers it leaves the users table and the history as they were: the
\* invocation has applied no counter update and no history insert.
C2_FailedGenerationChargesNothing ==
    [][(Answered /\ resp'.claude = "failed") =>
          /\ resp'.status = 500
          /\ ~resp'.committed /\ ~resp'.inserted
          /\ users' = users /\ rewrites' = rewrites]_vars

C2_Witness ==
    /\ Loaded(resp) /\ resp.claude = "failed" /\ resp.status = 500
    /\ resp.stale /\ resp.resetWrote

\* C3: a loaded row whose count after the rollover is at or above the tier
\* limit is answered 429 with remaining 0, without a text-transform call and
\* without a counter update; no such invocation is ever past the check.
C3_AtLimitRejected ==
    /\ (Loaded(resp) /\ EffectiveCount(resp) >= UserLimit(resp.userTier)) =>
          /\ resp.status = 429 /\ resp.remaining = Some(0)
          /\ resp.claude = "none" /\ ~resp.committed /\ ~resp.inserted
    /\ \A r \in Reqs :
          (req[r].userData # None /\ req[r].pc # "rollover"
             /\ EffectiveCount(req[r]) >= UserLimit(req[r].userTier)) =>
          req[r].pc \notin {"claude", "commit", "history"}

C3_Witness ==
    /\ Loaded(resp) /\ resp.userTier = "standard" /\ resp.status = 429
    /\ EffectiveCount(resp) = UserLimit("standard")

\* C4: when the loaded row is of another date, the response is not a 429,
\* and once the request is answered the stored row has today's date and a
\* count of 0, or of 1 if the counter update was applied.
C4_RolloverPersisted ==
    [][(Answered /\ Loaded(resp') /\ resp'.stale) =>
          /\ resp'.status # 429
          /\ users'[resp'.userId].last_rewrite_date = resp'.reqToday
          /\ users'[resp'.userId].rewrites_today =
                Some(IF resp'.committed THEN 1 ELSE 0)]_vars

\* C5 as stated: with invocations in turn, the counter-update step of an
\* admitted, generated request raises the stored rewrites_today and
\* rewrites_total by exactly 1, and no other step raises either.
C5_ExactlyOnePerSuccess ==
    [][\A u \in Users :
          IF \E r \in Reqs : req[r].pc = "commit" /\ req'[r].pc # "commit"
                               /\ req[r].userId = u
          THEN Today(u)' = Today(u) + 1 /\ Total(u)' = Total(u) + 1
          ELSE Today(u)' <= Today(u) /\ Total(u)' <= Total(u)]_vars

\* C5 amended: the counter update, when the ledger applies it, raises
\* rewrites_total by exactly 1 and sets rewrites_today to the handler's
\* post-rollover copy plus 1, which is the stored count plus 1 unless the
\* rollover update of that invocation had failed; a counter update that
\* fails changes nothing, and no other step raises either counter.
C5_OnePerAppliedCommit ==
    [][\A u \in Users :
          IF \E r \in Reqs : req[r].pc = "commit" /\ req'[r].committed
                               /\ req[r].userId = u
          THEN LET r == CHOOSE x \in Reqs : req[x].pc = "commit" IN
               /\ Total(u)' = Total(u) + 1
               /\ Today(u)' = OrZero(Get(req[r].userData).rewrites_today) + 1
               /\ (~req[r].stale \/ req[r].resetWrote) =>
                     Today(u)' = Today(u) + 1
          ELSE Today(u)' <= Today(u) /\ Total(u)' <= Total(u)]_vars

C5_Witness ==
    /\ Loaded(resp) /\ resp.status = 200 /\ resp.committed
    /\ Today(resp.userId) = 2 /\ Total(resp.userId) = 2

\* C6: whenever no invocation is in flight and the stored row is of today,
\* its rewrites_today is the number of 200 responses the user got today.
C6_CountMatchesServed ==
    \A u \in Users :
        (Quiescent /\ users[u].last_rewrite_date = Some(today)) =>
            Today(u) = served[u]

\* C7: no step lowers a stored rewrites_total.
C7_TotalNeverDecreases ==
    [][\A u \in Users : Total(u)' >= Total(u)]_vars

\* C8: a free-tier user below the limit who asks for a paid style, in any
\* letter case, gets 403 with remaining = limit - rewritesToday, without a
\* text-transform call and without a counter update.
C8_PaidStyleRejected ==
    (/\ Loaded(resp) /\ resp.userTier = "free"
     /\ EffectiveCount(resp) < UserLimit("free")
     /\ ToLowerCase(resp.style) \in paidStyles) =>
        /\ resp.status = 403
        /\ resp.remaining = Some(UserLimit("free") - EffectiveCount(resp))
        /\ resp.claude = "none" /\ ~resp.committed

\* C9 as stated: a free-tier user below the limit gets 403, and no
\* text-transform call, for every style outside {professional, direct, email}.
C9_NotAllowedRejected ==
    (/\ Loaded(resp) /\ resp.userTier = "free"
     /\ EffectiveCount(resp) < UserLimit("free")
     /\ ToLowerCase(resp.style) \notin freeStyles) =>
        resp.status = 403 /\ resp.claude = "none"

\* C9 amended: 403 is answered only to a free-tier user asking for one of
\* the four paid styles; a style that no tier knows is not rejected: for a
\* free-tier user below the limit it goes to the text-transform call, with
\* the professional prompt.
C9_OnlyPaidStylesRejected ==
    /\ (resp.pc = "done" /\ resp.status = 403) =>
          resp.userTier = "free" /\ ToLowerCase(resp.style) \in paidStyles
    /\ (/\ Loaded(resp) /\ resp.userTier = "free"
        /\ EffectiveCount(resp) < UserLimit("free")
        /\ ToLowerCase(resp.style) \notin stylePrompts) =>
          /\ resp.status \in {200, 500}
          /\ resp.claude # "none" /\ resp.prompt = "professional"

C9_Witness ==
    /\ Loaded(resp) /\ resp.userTier = "free" /\ resp.style = "poetic"
    /\ resp.status = 200 /\ resp.committed

\* C10 as stated: a free-tier user asking for formal gets 403 whatever the
\* counter.
C10_FormalAlways403 ==
    (Loaded(resp) /\ resp.userTier = "free" /\ ToLowerCase(resp.style) = "formal")
        => resp.status = 403

\* C10 amended: a free-tier user asking for formal gets 429 with remaining
\* 0, not 403, when today's count is at or above the limit; 403 is answered
\* only below the limit, and always so for a row of today.
C10_FormalAfterQuota ==
    (Loaded(resp) /\ resp.userTier = "free" /\ ToLowerCase(resp.style) = "formal")
        => /\ EffectiveCount(resp) >= UserLimit("free") =>
                 resp.status = 429 /\ resp.remaining = Some(0)
           /\ resp.status = 403 => EffectiveCount(resp) < UserLimit("free")
           /\ (~resp.stale /\ EffectiveCount(resp) < UserLimit("free")) =>
                 resp.status = 403

C10_Witness ==
    /\ Loaded(resp) /\ resp.userTier = "free" /\ resp.style = "formal"
    /\ resp.status = 429 /\ EffectiveCount(resp) = UserLimit("free")

\* C11: the remaining of a 200 response to a loaded user whose counter
\* update was applied is max(0, limit - rewrites_today), with the stored
\* rewrites_today as that update left it, whatever the tier.
C11_RemainingAfterCommit ==
    [][(Answered /\ Loaded(resp') /\ resp'.status = 200 /\ resp'.committed) =>
          LET left == UserLimit(resp'.userTier)
                         - Get(users'[resp'.userId].rewrites_today) IN
          resp'.remaining = Some(IF left > 0 THEN left ELSE 0)]_vars

Rejected(q) == q.pc = "done" /\ q.status \in {429, 403}

\* C13: when a rejected request of a user is followed, with no response in
\* between and on the same date, by another rejected request of that user
\* with the same style, the second gets the same status and the same
\* remaining, and leaves the stored rewrites_today as it was.
C13_RejectionIdempotent ==
    [][(/\ Answered /\ Rejected(resp) /\ Rejected(resp')
        /\ resp'.userId = resp.userId /\ resp'.style = resp.style
        /\ resp'.reqToday = resp.reqToday) =>
          /\ resp'.status = resp.status
          /\ resp'.remaining = resp.remaining
          /\ users'[resp'.userId].rewrites_today
                = users[resp'.userId].rewrites_today]_vars

\* C14: a request whose generation succeeded is answered 200, with the
\* remaining computed from the handler's copy of the row, whether the
\* counter update and the history insert were applied, returned an error or
\* threw.
C14_BookkeepingNeverFailsRequest ==
    (resp.pc = "done" /\ resp.claude = "ok") =>
        /\ resp.status = 200
        /\ resp.remaining = Some(RemainingAfter(resp.userTier, resp.userData))

C14_Witness ==
    /\ Loaded(resp) /\ resp.claude = "ok" /\ resp.status = 200
    /\ ~resp.stale /\ ~resp.committed /\ ~resp.inserted
    /\ rewrites = <<>> /\ Total(resp.userId) = 0

\* The locals of invocation r after the step: those of the response when
\* the step answered.
After(r) == IF req'[r].pc = "done" THEN resp' ELSE req'[r]

\* C15: an invocation with no loaded row (no Bearer token, a token that
\* fails verification, a row that cannot be loaded) writes neither table in
\* any of its steps, is answered only 400 (validation), 500 (configuration
\* or a failed generation) or 200, never 401, 403 or 429, and once past the
\* validation is sent to the text-transform call with the prompt of its
\* style, whatever the style.
C15_AnonymousAdmitted ==
    [][\A r \in Reqs :
          (req[r].pc # "done" /\ req'[r] # req[r] /\ After(r).userData = None) =>
             /\ users' = users /\ rewrites' = rewrites
             /\ After(r).pc \in {"select", "claude", "done"}
             /\ After(r).pc = "done" =>
                   /\ After(r).status \in {400, 500, 200}
                   /\ After(r).status = 400 => After(r).claude = "none"
                   /\ After(r).status = 500 =>
                         (~env.ANTHROPIC_API_KEY \/ After(r).claude = "failed")
                   /\ After(r).status = 200 =>
                         /\ After(r).claude = "ok"
                         /\ After(r).prompt = getPromptForStyle(After(r).style)
                         /\ After(r).remaining = Some(UserLimit("free"))]_vars

C15_Witness ==
    /\ resp.pc = "done" /\ resp.userData = None /\ resp.userId # NULL
    /\ resp.style = "formal" /\ resp.status = 200 /\ resp.prompt = "formal"
    /\ ledgerFailed

\* The effect the deleted event is to have on row u of the table.
DowngradedIfMatching(u) ==
    IF users[u].stripe_subscription_id = hook'.sub
    THEN users'[u] = [users[u] EXCEPT !.tier = "free",
                                      !.stripe_subscription_id = NULL]
    ELSE users'[u] = users[u]

\* C19 as stated: the delivery of a verified customer.subscription.deleted
\* event for S sets tier free and a null reference on every row whose
\* reference is S, and leaves every other row as it was.
C19_DeletedDowngradesMatching ==
    [][(/\ hook'.type = "customer.subscription.deleted"
        /\ hook'.status # 400 /\ req' = req) =>
          \A u \in DOMAIN users : DowngradedIfMatching(u)]_vars

\* C19 amended: so it is when the ledger applies the update of the event;
\* when that update returns an error (answered 200) or throws (answered
\* 500), no row changes.
C19_DeletedDowngradesIfApplied ==
    [][(/\ hook'.type = "customer.subscription.deleted"
        /\ hook'.status # 400 /\ req' = req) =>
          IF hook'.applied
          THEN hook'.status = 200 /\ \A u \in DOMAIN users : DowngradedIfMatching(u)
          ELSE hook'.status \in {200, 500} /\ users' = users]_vars

C19_Witness ==
    /\ hook.type = "customer.subscription.deleted" /\ hook.applied
    /\ hook.sub = "sub_1"
    /\ users["u1"].tier = "free" /\ users["u1"].stripe_subscription_id = NULL
    /\ users["u2"].tier = "pro" /\ users["u2"].stripe_subscription_id = "sub_2"

\* C16: no step of a rewrite invocation changes the tier or the
\* subscription reference of a row; the tier an invocation works with is
\* the stored one at the step that loads the row and stays that until the
\* response; and the request is answered 429 exactly when the count after
\* the rollover is at or above the limit of that tier.
C16_TierReadFreshNeverWritten ==
    [][\A r \in Reqs :
          (req[r].pc # "done" /\ req'[r] # req[r]) =>
             /\ \A u \in DOMAIN users :
                   /\ users'[u].tier = users[u].tier
                   /\ users'[u].stripe_subscription_id
                         = users[u].stripe_subscription_id
             /\ (req[r].pc = "select" /\ After(r).userData # None) =>
                   After(r).userTier = TierOrFree(users[req[r].userId].tier)
             /\ req[r].userData # None => After(r).userTier = req[r].userTier
             /\ (After(r).pc = "done" /\ After(r).userData # None) =>
                   (After(r).status = 429
                      <=> EffectiveCount(After(r)) >= UserLimit(After(r).userTier))]_vars

C16_Witness ==
    /\ Loaded(resp) /\ resp.userTier = "standard" /\ resp.status = 200
    /\ resp.committed /\ ~resp.stale /\ Today(resp.userId) = 3
    /\ users[resp.userId].tier = "standard"
    /\ hook.type = "checkout.session.completed"

\* C17: the rollover step of an invocation that found the row of another
\* date leaves the row of the invocation's date, and a reset is only ever
\* written onto a row that is not yet of that date: once a day, by the
\* first invocation to reach the row.
C17_ResetOncePerDay ==
    [][\A r \in Reqs :
          (req[r].pc = "rollover" /\ req'[r] # req[r]) =>
             /\ users'[req[r].userId].last_rewrite_date = req[r].reqToday
             /\ After(r).resetWrote =>
                   users[req[r].userId].last_rewrite_date # req[r].reqToday]_vars

\* The inputs the validation of lines 31-38 refuses.
Invalid(text, style) == text \in {NULL, "", "   "} \/ style = NULL

\* C18: the first step of a request whose text is missing, empty or only
\* whitespace, or whose style is missing, answers 400 at once: no user is
\* resolved from the token, no row is loaded, the text-transform API is not
\* called, and the users and rewrites tables are as they were; and no other
\* request is answered 400.
C18_InvalidInputRejectedFirst ==
    [][/\ \A r \in Reqs :
             (req[r].pc = "idle" /\ req'[r].pc # "idle") =>
                /\ Invalid(After(r).text, After(r).style) =>
                      /\ req'[r].pc = "done" /\ resp'.status = 400
                      /\ resp'.userId = NULL /\ resp'.userData = None
                      /\ resp'.claude = "none" /\ resp'.prompt = NULL
                      /\ users' = users /\ rewrites' = rewrites
                /\ (req'[r].pc = "done" /\ resp'.status = 400) =>
                      Invalid(resp'.text, resp'.style)
       /\ (Answered /\ resp'.status = 400) =>
             \E r \in Reqs : req[r].pc = "idle" /\ req'[r].pc = "done"]_vars

C18_Witness ==
    /\ resp.pc = "done" /\ resp.status = 400
    /\ resp.text = "   " /\ resp.style = "formal"
    /\ resp.userId = NULL /\ resp.claude = "none"
    /\ \E u \in Users : users[u].last_rewrite_date = None

\* C20: a request that loaded a row whose stored tier is none of free,
\* standard, pro is answered 429 (remaining 0) exactly when the count after
\* the rollover is at least the free quota, and otherwise as any request
\* is: 403, 200, or 500 for a failed generation only.
C20_UnknownTierGetsFreeQuota ==
    [][\A r \in Reqs :
          (/\ req[r].pc # "done" /\ req'[r].pc = "done" /\ resp'.userData # None
           /\ users[resp'.userId].tier \notin DOMAIN dailyLimits) =>
             /\ resp'.status = 429 <=> EffectiveCount(resp') >= dailyLimits.free
             /\ resp'.status = 429 => resp'.remaining = Some(0)
             /\ resp'.status \in {200, 403, 429, 500}
             /\ resp'.status = 500 => resp'.claude = "failed"]_vars

C20_Witness ==
    /\ Loaded(resp) /\ resp.userTier = "enterprise" /\ resp.status = 429
    /\ EffectiveCount(resp) = dailyLimits.free
    /\ users[resp.userId].tier = "enterprise"

\* C21: a request with a valid text and style that arrives while the
\* text-transform credential or a database credential is missing is
\* answered 500 by the handler in its first step, with no text-transform
\* call and both tables unchanged.
C21_MissingCredential500 ==
    [][\A r \in Reqs :
          (/\ req[r].pc = "idle" /\ req'[r].pc # "idle"
           /\ ~Invalid(After(r).text, After(r).style)
           /\ (~env.ANTHROPIC_API_KEY \/ ~DbConfigured)) =>
             /\ req'[r].pc = "done" /\ resp'.status = 500
             /\ resp'.claude = "none" /\ resp'.prompt = NULL
             /\ users' = users /\ rewrites' = rewrites]_vars

\* C24: starting from free users without a subscription reference, after
\* any deliveries of verified events in any order, a user whose tier is
\* standard or pro has a subscription reference.
C24_PaidTierHasSubscription ==
    \A u \in DOMAIN users :
        users[u].tier \in {"standard", "pro"} => users[u].stripe_subscription_id # NULL

\* C25: a delivery whose signature verification fails is answered 400 and
\* changes no row; a verified invoice.payment_succeeded,
\* invoice.payment_failed or unhandled event is answered 200 and changes no
\* row.
C25_UnverifiedAndOtherEventsWriteNothing ==
    [][(req' = req /\ hook'.type # NULL) =>
          /\ ~hook'.verified => (hook'.status = 400 /\ users' = users)
          /\ (/\ hook'.verified
              /\ hook'.type \in {"invoice.payment_succeeded", "invoice.payment_failed",
                                 "customer.created"}) =>
                (hook'.status = 200 /\ users' = users)]_vars

\* An unverified deletion event, and a verified failed payment, for the
\* subscription of a paying user: both leave the user on the paid tier.
C25_Witness ==
    /\ hook.type \in {"customer.subscription.deleted", "invoice.payment_failed"}
    /\ hook.type = "invoice.payment_failed" <=> hook.verified
    /\ hook.status = IF hook.verified THEN 200 ELSE 400
    /\ \E u \in DOMAIN users :
          users[u].stripe_subscription_id = hook.sub /\ users[u].tier = "pro"

\* C26: a checkout.session.completed or customer.subscription.updated
\* event changes only the row of the user named in the metadata, and of it
\* only the tier and (checkout only) the subscription reference; no webhook
\* event changes rewrites_today, rewrites_total or last_rewrite_date of any
\* row.
C26_TierEventsFrame ==
    [][(req' = req /\ hook'.type # NULL) =>
          \A u \in DOMAIN users :
             /\ users'[u].rewrites_today = users[u].rewrites_today
             /\ users'[u].rewrites_total = users[u].rewrites_total
             /\ users'[u].last_rewrite_date = users[u].last_rewrite_date
             /\ hook'.type \in {"checkout.session.completed",
                                "customer.subscription.updated"} =>
                  /\ u # hook'.userId => users'[u] = users[u]
                  /\ hook'.type = "customer.subscription.updated" =>
                        users'[u].stripe_subscription_id = users[u].stripe_subscription_id]_vars

\* A checkout event has upgraded u1 while u2 is as it started.
C26_Witness ==
    /\ hook.type = "checkout.session.completed" /\ hook.applied
    /\ hook.userId = "u1"
    /\ users["u1"].tier = "pro" /\ users["u1"].stripe_subscription_id = hook.sub
    /\ users["u1"].rewrites_today = Some(1)
    /\ users["u2"] = InitRow("free", 1, Some(1))

\* C27: a checkout request without a valid token is answered 401, one
\* whose priceId is missing or is not the standard or pro price is answered
\* 400, and neither creates a customer or a session or writes the users
\* table; the tier in the metadata of every session created is 'standard'
\* exactly when its price is the standard price and 'pro' otherwise, so it
\* is one of free, standard, pro.
C27_CheckoutRejectsAndTier ==
    [][/\ \A c \in Checkouts :
            (checkout[c].pc = "idle" /\ checkout'[c].pc # "idle") =>
               LET q == checkout'[c] IN
               /\ q.auth \in {"none", "invalid"} =>
                    (q.pc = "done" /\ q.status = 401 /\ stripe' = stripe /\ users' = users)
               /\ (q.auth = "valid" /\ q.priceId \notin {STRIPE_PRICE_STANDARD,
                                                          STRIPE_PRICE_PRO}) =>
                    (q.pc = "done" /\ q.status = 400 /\ stripe' = stripe /\ users' = users)
       /\ \A s \in stripe'.sessions :
            /\ s.tier = (IF s.price = STRIPE_PRICE_STANDARD THEN "standard" ELSE "pro")
            /\ s.price \in {STRIPE_PRICE_STANDARD, STRIPE_PRICE_PRO}
            /\ s.tier \in {"free", "standard", "pro"}]_vars

\* A session for the pro price has been created, and a request with
\* another price has been answered 400.
C27_Witness ==
    /\ \E s \in stripe.sessions : s.price = STRIPE_PRICE_PRO /\ s.tier = "pro"
    /\ \E c \in Checkouts :
          /\ checkout[c].pc = "done" /\ checkout[c].status = 400
          /\ checkout[c].priceId = "price_other"

\* C28: the checkout endpoint creates at most one Stripe customer for a
\* user, in every interleaving of the user's requests.
C28_OneCustomerPerUser ==
    \A u \in Accounts :
        Cardinality({i \in DOMAIN stripe.customers : stripe.customers[i] = u}) <= 1

\* C29: in a request of a loaded user the counter update is tried only
\* right after a generation that succeeded, the history insert only right
\* after the counter update, and the 200 response comes after the insert
\* was tried, or right after a counter update that threw; a history row is
\* inserted only by a request whose generation succeeded, and none is
\* inserted when the counter update throws.
C29_GenerateCommitHistoryRespond ==
    [][/\ \A r \in Reqs :
            /\ (req[r].pc # "commit" /\ req'[r].pc = "commit") =>
                  (req[r].pc = "claude" /\ req'[r].claude = "ok")
            /\ (req[r].pc # "history" /\ req'[r].pc = "history") =>
                  (req[r].pc = "commit" /\ req[r].claude = "ok")
            /\ (/\ req[r].pc # "done" /\ req'[r].pc = "done"
                /\ Loaded(resp') /\ resp'.status = 200) =>
                  /\ resp'.claude = "ok"
                  /\ req[r].pc \in {"history", "commit"}
                  /\ req[r].pc = "commit" => (~resp'.inserted /\ rewrites' = rewrites)
            /\ Commit(r, "throw") =>
                  /\ req'[r].pc = "done" /\ resp'.status = 200
                  /\ ~resp'.committed /\ ~resp'.inserted /\ rewrites' = rewrites
       /\ rewrites' # rewrites =>
            \E r \in Reqs :
                /\ req[r].pc = "history" /\ req[r].claude = "ok"
                /\ req'[r].pc = "done" /\ resp'.status = 200 /\ resp'.inserted
                /\ rewrites' = Append(rewrites, [user_id |-> req[r].userId])]_vars

\* A request has gone through all four steps: the row is counted up and
\* the history row is there.
C29_Witness ==
    /\ Loaded(resp) /\ resp.status = 200 /\ resp.claude = "ok"
    /\ resp.committed /\ resp.inserted
    /\ Len(rewrites) = 1 /\ rewrites[1].user_id = resp.userId
    /\ Total(resp.userId) = OrZero(Get(resp.userData).rewrites_total) + 1

\* C23: with a fixed tier, the stored rewrites_today of a user never
\* exceeds the daily quota of the tier, also when requests of the user
\* overlap, as long as no ledger call throws.
C23_StoredCountWithinQuota ==
    \A u \in Users : OrZero(users[u].rewrites_today) <= UserLimit(TierOrFree(users[u].tier))

\* The stored count is at the quota while an admitted request that read
\* the count before the last update is still to write its own.
C23_Witness ==
    \E u \in Users, r \in Reqs :
        /\ OrZero(users[u].rewrites_today) = UserLimit(TierOrFree(users[u].tier))
        /\ req[r].pc = "commit" /\ req[r].userId = u
        /\ OrZero(Get(req[r].userData).rewrites_today) + 1 = UserLimit(req[r].userTier)

-----------------------------------------------------------------------------
(* The service worker *)

\* The step is a fetch event; Last is the event and its answer.
FetchStep == sw'.last # None /\ sw'.last # sw.last

Last == Get(sw'.last)

C30_HtmlNetworkFirst ==
    [][(FetchStep /\ Last.branch = "html") =>
          /\ Last.answer.fetched
          /\ IF Last.net # "reject"
             THEN /\ Last.answer.source = "network"
                  /\ Last.answer.body = NetResponse(Last.path, Last.net)
                  /\ ~Last.answer.matched
             ELSE /\ Last.answer.matched
                  /\ Last.answer.body = Match(Last.path)
          /\ Last.answer.put = None
          /\ sw'.puts = sw.puts
          /\ caches' = caches]_vars

\* A navigation answered from the network although the cache holds an
\* older copy of the resource.
C30_Witness ==
    /\ sw.last # None
    /\ Get(sw.last).branch = "html"
    /\ Get(sw.last).answer.source = "network"
    /\ Match(Get(sw.last).path) # None
    /\ Get(Match(Get(sw.last).path)).v < Get(Get(sw.last).answer.body).v

\* C31: once the activate event has completed no cache but the one named
\* CACHE_NAME exists; from then on an entry of a cache changes only by a
\* put of the fetch handler, into the cache named CACHE_NAME, of a
\* response it fetched with status 200.
C31_OnlyCurrentCacheOnly200 ==
    [][/\ sw'.state = "activated" =>
            /\ DOMAIN caches' \subseteq {CACHE_NAME}
            /\ \A put \in sw'.puts : put[2].status = 200
       /\ sw.state = "activated" =>
            \A n \in DOMAIN caches', p \in Paths :
               LET old == IF n \in DOMAIN caches THEN caches[n][p] ELSE None IN
               caches'[n][p] # old =>
                  /\ n = CACHE_NAME
                  /\ caches'[n][p] # None
                  /\ Get(caches'[n][p]).status = 200
                  /\ <<p, Get(caches'[n][p])>> \in sw.puts]_vars

\* After the activation the cache of the previous worker is gone, the
\* fetch handler has stored an asset it fetched with status 200, and the
\* 404 answer it passed on last was not stored.
C31_Witness ==
    /\ sw.state = "activated"
    /\ DOMAIN caches = {CACHE_NAME}
    /\ caches[CACHE_NAME]["/style.css"] # None
    /\ Get(caches[CACHE_NAME]["/style.css"]).status = 200
    /\ sw.last # None
    /\ Get(sw.last).branch = "asset" /\ Get(sw.last).net = "404"
    /\ Get(sw.last).answer.source = "network" /\ Get(sw.last).answer.put = None

=============================================================================
